---- MODULE Spec2Model ----
(***************************************************************************)
(* Check-in scheduling and inactivity monitoring of the Mental Health      *)
(* Check-In Agent: the Streamlit web app                                   *)
(* (mental_health_checkin_streamlit.py) and the background service         *)
(* (autonomous_agent.py).                                                  *)
(*                                                                         *)
(* Time is counted in whole hours.  The three JSON files under data/ are   *)
(* the shared state; each Streamlit session is a thread that runs the      *)
(* script (the __main__ block, then the handlers of main()); the web app   *)
(* owns one module-level BackgroundScheduler, the background service one   *)
(* BlockingScheduler.                                                      *)
(***************************************************************************)
EXTENDS Integers, Sequences, FiniteSets, TLC

(* ---------------- program constants ---------------- *)
CHECK_IN_INTERVAL_HOURS == 3
INACTIVITY_THRESHOLD_HOURS == 12
MAX_HISTORY_ENTRIES == 1000
STATUS_LOG_INTERVAL_HOURS == 6
SLIDER_MIN == 2
SLIDER_MAX == 5

MOOD_HISTORY_CONTEXT_SIZE == 3

(* ---------------- bounds of the model ---------------- *)
MaxClock == 2
MaxSchedClock == 7
MaxRemindClock == 4
MaxCheckins == 2
PrefillLen == 999
MaxHistory == 5
MaxKnob == 6
MaxSmallKnob == 2

Sessions == {1, 2}
\* what the user of a session types into the form
UserInput(t) == IF t = 1 THEN "text of session 1" ELSE "text of session 2"

VARIABLES
  now,              \* datetime.datetime.now(), in hours
  userHistoryFile,  \* data/user_history.json
  lastCheckinFile,  \* data/last_checkin.json
  emailConfigFile,  \* data/email_config.json
  diskOk,           \* whether open(file, 'w') succeeds
  scheduler,        \* jobs of the web app's BackgroundScheduler
  agent,            \* the background service: its state and its scheduler's jobs
  pc,               \* per session: position in the script
  loc,              \* per session: local variables of the running handler
  interval,         \* per session: st.session_state['interval']
  lastSweep,        \* what the latest check_inactivity() found
  notifier,         \* the latest send_email() call and its outcome
  lastDone,         \* response and mood of the check-in that completed last
  alertCalls,       \* number of send_inactivity_alert() calls so far
  totalAppends,     \* number of history.append(new_entry) calls so far
  budget,           \* check-in submissions the model still allows
  knobs,            \* the configuration knobs as the operator set them
  executor          \* per scheduler and job id: instances of the job now executing

vars == <<knobs, executor, lastDone, now, userHistoryFile, lastCheckinFile, emailConfigFile, diskOk,
          scheduler, agent, pc, loc, interval, lastSweep, notifier, alertCalls,
          totalAppends, budget>>

(* ---------------- JSON files ---------------- *)
\* A file is absent, holds JSON data, or holds text json.load rejects.
AbsentFile == [state |-> "absent", data |-> <<>>]
JsonFile(d) == [state |-> "json", data |-> d]
CorruptFile == [state |-> "corrupt", data |-> <<>>]
\* a file whose bytes are not UTF-8: reading it raises UnicodeDecodeError
UndecodableFile == [state |-> "undecodable", data |-> <<>>]

\* load_json_file lets every exception but JSONDecodeError and
\* FileNotFoundError through to its caller.
load_raises(file) == file.state = "undecodable"

\* load_json_file: the parsed data, or the default when the file is absent
\* or json.load raises JSONDecodeError.
load_json_file(file, default_value) ==
  IF file.state = "json" THEN file.data ELSE default_value

\* save_json_file that writes nothing
save_json_file_skipped(file, data, ok) == file

\* save_json_file: the file after the call; the exception of a failed
\* write is caught and the file is left as it was.
save_json_file(file, data, ok) ==
  IF ok THEN JsonFile(data) ELSE file

\* The timestamp of a marker or record: None, or an hour count
\* (isoformat / fromisoformat of the same datetime).
None == <<>>
Iso(t) == <<t>>
FromIso(s) == s[1]
\* a timestamp text that datetime.fromisoformat rejects with ValueError
Malformed == <<0, 0>>
Parses(s) == Len(s) = 1

DefaultMarker == [timestamp |-> None]
DefaultEmailConfig == [enabled |-> FALSE, recipient_email |-> ""]

get_user_history == load_json_file(userHistoryFile, <<>>)
get_last_checkin == load_json_file(lastCheckinFile, DefaultMarker).timestamp
get_email_config == load_json_file(emailConfigFile, DefaultEmailConfig)

(* ---------------- mood extraction ---------------- *)
\* An analysis text is a sequence of tokens; "\n" is a line break.
AnalysisTexts ==
  { <<"Mood:", "Positive", "\n", "Suggestion:", "walk">>,
    <<"you", "seem", "sad">> }

MoodKeywords == <<"Positive", "Neutral", "Stressed", "Sad", "Anxious", "Happy",
                  "Depressed", "Excited", "Tired", "Energetic">>

\* keyword.lower() in analysis_text.lower(), on tokens
Lower(tok) ==
  CASE tok = "Positive" -> "positive" [] tok = "Neutral" -> "neutral"
    [] tok = "Stressed" -> "stressed" [] tok = "Sad" -> "sad"
    [] tok = "Anxious" -> "anxious" [] tok = "Happy" -> "happy"
    [] tok = "Depressed" -> "depressed" [] tok = "Excited" -> "excited"
    [] tok = "Tired" -> "tired" [] tok = "Energetic" -> "energetic"
    [] OTHER -> tok

Contains(text, tok) == \E i \in 1..Len(text) : Lower(text[i]) = Lower(tok)

IndexOf(text, tok) ==
  IF \E i \in 1..Len(text) : text[i] = tok
  THEN CHOOSE i \in 1..Len(text) :
         text[i] = tok /\ \A j \in 1..(i - 1) : text[j] # tok
  ELSE 0

\* analysis_text.split("Mood:")[1].split("\n")[0].strip()
MoodLine(text) ==
  LET start == IndexOf(text, "Mood:")
      rest == SubSeq(text, start + 1, Len(text))
      stops == {i \in 1..Len(rest) : rest[i] \in {"\n", "Mood:"}}
      stop == IF stops = {} THEN Len(rest) + 1
              ELSE CHOOSE i \in stops : \A j \in stops : i <= j
  IN SubSeq(rest, 1, stop - 1)

FirstKeyword(text) ==
  LET hits == {k \in 1..Len(MoodKeywords) : Contains(text, MoodKeywords[k])}
  IN IF hits = {} THEN <<"Unknown">>
     ELSE <<MoodKeywords[CHOOSE k \in hits : \A j \in hits : k <= j]>>

get_mood_from_response(analysis_text) ==
  IF IndexOf(analysis_text, "Mood:") # 0
  THEN MoodLine(analysis_text)
  ELSE FirstKeyword(analysis_text)

\* recent_moods taken from the front of the history, history[:3]
RecentMoodsOldest(history) ==
  [i \in 1..(IF Len(history) > 3 THEN 3 ELSE Len(history)) |-> history[i].mood]

\* recent_moods of analyze_mood_with_history: the moods of history[-3:]
RecentMoods(history) ==
  LET n == Len(history)
      first == IF n > 3 THEN n - 2 ELSE 1
  IN [i \in 1..(n - first + 1) |-> history[first + i - 1].mood]

(* ---------------- what a script run reads ---------------- *)
\* get_last_checkin() followed by fromisoformat(), as in check_inactivity
\* and twice in main(): raises on an unreadable file and on a timestamp
\* that is set but does not parse
MarkerRaises ==
  \/ load_raises(lastCheckinFile)
  \/ (get_last_checkin # None /\ ~Parses(get_last_checkin))

\* main(), the sidebar: email_config = get_email_config()
SidebarRaises == load_raises(emailConfigFile)

\* main(), "Your Stats": the history, and the marker when there is history
StatsRaises ==
  \/ load_raises(userHistoryFile)
  \/ (get_user_history # <<>> /\ MarkerRaises)

(* ---------------- email ---------------- *)
\* What a send_email() call did: whether the SMTP call was made and how it
\* ended, the value returned, and whether an exception left the function.
Gated == [smtp |-> "not_called", result |-> FALSE, raised |-> FALSE]
Sent(smtp_ok) ==
  [smtp |-> IF smtp_ok THEN "sent" ELSE "failed", result |-> smtp_ok, raised |-> FALSE]

\* send_email without the config["enabled"] test
send_email_ungated(config, smtp_ok) == Sent(smtp_ok)

\* send_email without the try/except around the SMTP call
send_email_propagating(config, smtp_ok) ==
  IF ~config.enabled THEN Gated
  ELSE [smtp |-> IF smtp_ok THEN "sent" ELSE "failed", result |-> smtp_ok,
        raised |-> ~smtp_ok]

\* send_email left by an exception
Raised == [smtp |-> "not_called", result |-> FALSE, raised |-> TRUE]

\* send_email of the web app: gated by config["enabled"]; the SMTP call
\* (yagmail or smtplib) runs inside try/except Exception.
send_email(config, smtp_ok) ==
  IF ~config.enabled THEN Gated ELSE Sent(smtp_ok)

\* send_email of the background service: also returns False when no
\* recipient is configured.
agent_send_email(config, smtp_ok) ==
  IF ~config.enabled THEN Gated
  ELSE IF config.recipient_email = "" THEN Gated
  ELSE Sent(smtp_ok)

NoCall == [caller |-> "none", smtp |-> "not_called", result |-> FALSE, raised |-> FALSE]
Call(who, r) ==
  [caller |-> who, smtp |-> r.smtp, result |-> r.result, raised |-> r.raised]

(* ---------------- APScheduler job stores ---------------- *)
\* A job of an interval trigger, added at hour t.  runs, gated and skipped
\* record how often it has run, whether a run found the e-mail gate closed,
\* and how many of its fire times passed without a run.
Job(id, func, hours, t) ==
  [id |-> id, func |-> func, hours |-> hours, next_run_time |-> t + hours,
   runs |-> 0, gated |-> FALSE, skipped |-> 0]

HasId(jobs, id) == \E i \in 1..Len(jobs) : jobs[i].id = id

\* scheduler.add_job(..., id=job.id, replace_existing=...)
add_job(jobs, job, replace_existing) ==
  IF HasId(jobs, job.id)
  THEN IF replace_existing
       THEN [i \in 1..Len(jobs) |-> IF jobs[i].id = job.id THEN job ELSE jobs[i]]
       ELSE jobs
  ELSE Append(jobs, job)

\* for job in scheduler.get_jobs(): if "checkin_email" in job.id: remove_job
NotCheckinJob(j) == j.id # "checkin_email"
remove_checkin_jobs(jobs) == SelectSeq(jobs, NotCheckinJob)

\* setup_scheduled_emails that adds the job without removing or replacing
setup_scheduled_emails_adding(jobs, t) ==
  Append(jobs, Job("checkin_email", "send_checkin_email", CHECK_IN_INTERVAL_HOURS, t))

\* setup_scheduled_emails: the interval is the module constant, whatever
\* the slider shows.
setup_scheduled_emails(jobs, t) ==
  add_job(remove_checkin_jobs(jobs),
          Job("checkin_email", "send_checkin_email", CHECK_IN_INTERVAL_HOURS, t),
          TRUE)

\* setup_scheduler of the background service: a fresh BlockingScheduler
\* with the reminder, at the interval set at the top of the module, and the
\* status log.
setup_scheduler(t) ==
  add_job(add_job(<<>>,
                  Job("checkin_email", "send_checkin_email",
                      knobs.CHECK_IN_INTERVAL_HOURS, t),
                  TRUE),
          Job("status_log", "log_agent_status", STATUS_LOG_INTERVAL_HOURS, t),
          TRUE)

\* the interval trigger after a run: the next fire time is one period later
Rearm(jobs, i, r) ==
  [jobs EXCEPT ![i].next_run_time = jobs[i].next_run_time + jobs[i].hours,
               ![i].runs = jobs[i].runs + 1,
               ![i].gated = jobs[i].gated \/ r.smtp = "not_called"]

Due(jobs) == {i \in 1..Len(jobs) : jobs[i].next_run_time <= now}

(* ---------------- configuration ---------------- *)
\* The knobs as shipped: config.py, and the copies of the first two at the
\* top of autonomous_agent.py and mental_health_checkin_streamlit.py.
\* validated is what validate_config made of them, once it has run.
DefaultConfig ==
  [CHECK_IN_INTERVAL_HOURS |-> CHECK_IN_INTERVAL_HOURS,
   INACTIVITY_THRESHOLD_HOURS |-> INACTIVITY_THRESHOLD_HOURS,
   MOOD_HISTORY_CONTEXT_SIZE |-> MOOD_HISTORY_CONTEXT_SIZE,
   MAX_HISTORY_ENTRIES |-> MAX_HISTORY_ENTRIES,
   WEB_APP_URL |-> "http://localhost:8501",
   validated |-> "not_run"]

\* validate_config: the errors it collects, in the order of its tests
validate_config(k) ==
  (IF ~(2 <= k.CHECK_IN_INTERVAL_HOURS /\ k.CHECK_IN_INTERVAL_HOURS <= 5)
   THEN <<"CHECK_IN_INTERVAL_HOURS must be between 2 and 5">> ELSE <<>>)
  \o (IF k.INACTIVITY_THRESHOLD_HOURS < 1
      THEN <<"INACTIVITY_THRESHOLD_HOURS must be at least 1">> ELSE <<>>)
  \o (IF k.MOOD_HISTORY_CONTEXT_SIZE < 1
      THEN <<"MOOD_HISTORY_CONTEXT_SIZE must be at least 1">> ELSE <<>>)
  \o (IF k.WEB_APP_URL = ""
      THEN <<"WEB_APP_URL cannot be empty">> ELSE <<>>)

\* what the operator may have set the knobs to
KnobSettings ==
  [CHECK_IN_INTERVAL_HOURS : 0..MaxKnob,
   INACTIVITY_THRESHOLD_HOURS : 0..MaxSmallKnob,
   MOOD_HISTORY_CONTEXT_SIZE : 0..MaxSmallKnob,
   MAX_HISTORY_ENTRIES : 0..MaxSmallKnob,
   WEB_APP_URL : {"", "http://localhost:8501"},
   validated : {"not_run"}]

\* the two knobs autonomous_agent.py holds, set by the operator; an
\* interval trigger needs a positive interval
AgentKnobs ==
  {[DefaultConfig EXCEPT !.CHECK_IN_INTERVAL_HOURS = i,
                         !.INACTIVITY_THRESHOLD_HOURS = h] :
     i \in 1..MaxKnob, h \in 0..MaxSmallKnob}

\* the executor of a scheduler: no instance of any job is executing
Owners == {"web", "agent"}
JobIds == {"checkin_email", "status_log"}
IdleExecutor == [id \in JobIds |-> 0]

(* ---------------- initial state ---------------- *)
LocInit == [data |-> None, history |-> <<>>, user_input |-> "",
            analysis |-> <<>>, mood |-> <<>>, recent_moods |-> <<>>,
            checkin_done |-> FALSE]

\* the program state at the start of a run, whatever the knobs
InitProgram ==
  /\ executor = [o \in Owners |-> IdleExecutor]
  /\ now = 0
  /\ emailConfigFile = AbsentFile
  /\ diskOk = TRUE
  /\ scheduler = <<>>
  /\ agent = [state |-> "off", jobs |-> <<>>]
  /\ pc = [t \in Sessions |-> "start"]
  /\ loc = [t \in Sessions |-> LocInit]
  /\ interval = [t \in Sessions |-> CHECK_IN_INTERVAL_HOURS]
  /\ lastSweep = "nothing"
  /\ notifier = NoCall
  /\ alertCalls = 0
  /\ budget = MaxCheckins
  /\ lastDone = [response |-> "", mood |-> <<>>]

InitCommon ==
  /\ knobs = DefaultConfig
  /\ InitProgram

\* what an earlier run of the web app left in data/: nothing, or one
\* check-in made `age` hours before this run starts
PastEntry(age) ==
  [timestamp |-> Iso(0 - age), mood |-> <<"Neutral">>, response |-> "earlier",
   analysis |-> <<"Mood:", "Neutral">>]

FreshInstall ==
  /\ lastCheckinFile = AbsentFile
  /\ userHistoryFile = AbsentFile
  /\ totalAppends = 0

Returning(age) ==
  /\ lastCheckinFile = JsonFile([timestamp |-> Iso(0 - age)])
  /\ userHistoryFile = JsonFile(<<PastEntry(age)>>)
  /\ totalAppends = 1

Init ==
  /\ InitCommon
  /\ \/ FreshInstall
     \/ Returning(INACTIVITY_THRESHOLD_HOURS)

(* ---------------- the script of a web session ---------------- *)
Goto(t, label) == pc' = [pc EXCEPT ![t] = label]

\* __main__: setup_scheduled_emails(), then check_inactivity(), then main()
ScriptStart(t) ==
  /\ pc[t] = "start"
  /\ scheduler' = setup_scheduled_emails(scheduler, now)
  /\ Goto(t, "sweep")
  /\ UNCHANGED <<knobs, executor, lastDone, now, userHistoryFile, lastCheckinFile, emailConfigFile, diskOk,
                 agent, loc, interval, lastSweep, notifier, alertCalls,
                 totalAppends, budget>>

\* check_inactivity that takes a missing marker for inactivity
AlertDueWhenAbsent(last_checkin, t) ==
  \/ last_checkin = None
  \/ t - FromIso(last_checkin) > INACTIVITY_THRESHOLD_HOURS

\* check_inactivity that alerts from the threshold on, >= for >
AlertDueAtThreshold(last_checkin, t) ==
  /\ last_checkin # None
  /\ t - FromIso(last_checkin) >= INACTIVITY_THRESHOLD_HOURS

\* check_inactivity: the test that decides whether the alert is sent
AlertDue(last_checkin, t) ==
  /\ last_checkin # None
  /\ t - FromIso(last_checkin) > INACTIVITY_THRESHOLD_HOURS

\* what a sweep found: no marker, a marker written this very hour, an
\* older marker within the threshold, or one beyond it
Seen(last_checkin, t) ==
  IF last_checkin = None THEN "absent"
  ELSE IF AlertDue(last_checkin, t) THEN "due"
  ELSE IF FromIso(last_checkin) = t THEN "fresh"
  ELSE "quiet"

\* check_inactivity, up to the decision
SweepRead(t) ==
  /\ pc[t] = "sweep"
  /\ ~MarkerRaises
  /\ LET last_checkin == get_last_checkin
     IN /\ lastSweep' = Seen(last_checkin, now)
        /\ Goto(t, IF AlertDue(last_checkin, now) THEN "sweep_send" ELSE "ui")
  /\ UNCHANGED <<knobs, executor, lastDone, now, userHistoryFile, lastCheckinFile, emailConfigFile, diskOk,
                 scheduler, agent, loc, interval, notifier, alertCalls,
                 totalAppends, budget>>

\* check_inactivity when reading or parsing the marker raises: the
\* exception ends the script run before main() is called
SweepRaise(t) ==
  /\ pc[t] = "sweep"
  /\ MarkerRaises
  /\ lastSweep' = "raised"
  /\ Goto(t, "crashed")
  /\ UNCHANGED <<knobs, executor, lastDone, now, userHistoryFile, lastCheckinFile,
                 emailConfigFile, diskOk, scheduler, agent, loc, interval, notifier,
                 alertCalls, totalAppends, budget>>

\* check_inactivity that saves the marker only after a delivered alert
SweepSendThenSaveIfSent(t) ==
  /\ pc[t] = "sweep_send"
  /\ \E smtp_ok \in BOOLEAN :
       LET r == IF load_raises(emailConfigFile) THEN Raised
                ELSE send_email(get_email_config, smtp_ok)
       IN /\ notifier' = Call("alert", r)
          /\ alertCalls' = alertCalls + 1
          /\ IF r.raised
             THEN Goto(t, "crashed") /\ loc' = loc
             ELSE IF r.result
             THEN Goto(t, "sweep_write") /\ loc' = [loc EXCEPT ![t].data = Iso(now)]
             ELSE Goto(t, "ui") /\ loc' = loc
  /\ UNCHANGED <<knobs, executor, lastDone, now, userHistoryFile, lastCheckinFile, emailConfigFile, diskOk,
                 scheduler, agent, interval, lastSweep, totalAppends, budget>>

\* send_inactivity_alert(), then the first line of save_last_checkin():
\* data = {"timestamp": now().isoformat()}; get_email_config() is called
\* outside send_email's try block
SweepSend(t) ==
  /\ pc[t] = "sweep_send"
  /\ \E smtp_ok \in BOOLEAN :
       LET r == IF load_raises(emailConfigFile) THEN Raised
                ELSE send_email(get_email_config, smtp_ok)
       IN /\ notifier' = Call("alert", r)
          /\ alertCalls' = alertCalls + 1
          /\ IF r.raised
             THEN Goto(t, "crashed") /\ loc' = loc
             ELSE Goto(t, "sweep_write") /\ loc' = [loc EXCEPT ![t].data = Iso(now)]
  /\ UNCHANGED <<knobs, executor, lastDone, now, userHistoryFile, lastCheckinFile, emailConfigFile, diskOk,
                 scheduler, agent, interval, lastSweep, totalAppends, budget>>

\* check_inactivity without the save_last_checkin() after the alert
WriteMarkerSkipped(t) == lastCheckinFile

\* save_last_checkin(): save_json_file(LAST_CHECKIN_FILE, data)
WriteMarker(t) ==
  save_json_file(lastCheckinFile, [timestamp |-> loc[t].data], diskOk)

SweepWrite(t) ==
  /\ pc[t] = "sweep_write"
  /\ lastCheckinFile' = WriteMarker(t)
  /\ loc' = [loc EXCEPT ![t].data = None]
  /\ Goto(t, "ui")
  /\ UNCHANGED <<knobs, executor, lastDone, now, userHistoryFile, emailConfigFile, diskOk, scheduler, agent,
                 interval, lastSweep, notifier, alertCalls, totalAppends, budget>>

(* ---------------- main(): the sidebar ---------------- *)
\* "Save Email Settings": shown only while the checkbox is ticked, so the
\* saved configuration has enabled = True.
SaveEmailSettings(t, recipient) ==
  /\ pc[t] = "ui"
  /\ ~SidebarRaises
  /\ LET new_config == [enabled |-> TRUE, recipient_email |-> recipient]
     IN /\ emailConfigFile' = save_json_file(emailConfigFile, new_config, diskOk)
        /\ scheduler' = IF diskOk THEN setup_scheduled_emails(scheduler, now)
                        ELSE scheduler
  /\ UNCHANGED <<knobs, executor, lastDone, now, userHistoryFile, lastCheckinFile, diskOk, agent, pc, loc,
                 interval, lastSweep, notifier, alertCalls, totalAppends, budget>>

\* the interval slider: the new value goes to the session state, and the
\* reminder job is registered again
SliderChange(t, v) ==
  /\ pc[t] = "ui"
  /\ ~SidebarRaises
  /\ v # interval[t]
  /\ interval' = [interval EXCEPT ![t] = v]
  /\ scheduler' = setup_scheduled_emails(scheduler, now)
  /\ UNCHANGED <<knobs, executor, lastDone, now, userHistoryFile, lastCheckinFile, emailConfigFile, diskOk,
                 agent, pc, loc, lastSweep, notifier, alertCalls, totalAppends, budget>>

\* "Send Test Email": send_checkin_email()
TestEmail(t) ==
  /\ pc[t] = "ui"
  /\ ~SidebarRaises
  /\ \E smtp_ok \in BOOLEAN :
       notifier' = Call("test", send_email(get_email_config, smtp_ok))
  /\ UNCHANGED <<knobs, executor, lastDone, now, userHistoryFile, lastCheckinFile, emailConfigFile, diskOk,
                 scheduler, agent, pc, loc, interval, lastSweep, alertCalls,
                 totalAppends, budget>>

(* ---------------- main(): the check-in form ---------------- *)
\* main() up to the form: the sidebar, the stats, and the marker read for
\* the welcome message while no check-in is on display
MainRaises(t) ==
  \/ SidebarRaises
  \/ StatsRaises
  \/ (~loc[t].checkin_done /\ MarkerRaises)

\* main() raises while it builds the page: the script run ends there
RenderRaise(t) ==
  /\ pc[t] = "ui"
  /\ MainRaises(t)
  /\ Goto(t, "crashed")
  /\ UNCHANGED <<knobs, executor, lastDone, now, userHistoryFile, lastCheckinFile,
                 emailConfigFile, diskOk, scheduler, agent, loc, interval, lastSweep,
                 notifier, alertCalls, totalAppends, budget>>

\* analyze_mood_with_history + get_mood_from_response; an exception of the
\* LLM call is reported and the check-in is dropped.
Submit(t, user_input, llm_ok, analysis) ==
  /\ pc[t] = "ui"
  /\ ~MainRaises(t)
  /\ ~loc[t].checkin_done
  /\ budget > 0
  /\ IF llm_ok
     THEN /\ budget' = budget - 1
          /\ loc' = [loc EXCEPT ![t].user_input = user_input,
                                ![t].analysis = analysis,
                                ![t].mood = get_mood_from_response(analysis),
                                ![t].recent_moods = RecentMoods(get_user_history)]
          /\ Goto(t, "ci_load")
     ELSE /\ budget' = budget
          /\ loc' = loc
          /\ pc' = pc
  /\ UNCHANGED <<knobs, executor, lastDone, now, userHistoryFile, lastCheckinFile, emailConfigFile, diskOk,
                 scheduler, agent, interval, lastSweep, notifier, alertCalls,
                 totalAppends>>

NewEntry(t) ==
  [timestamp |-> Iso(now), mood |-> loc[t].mood, response |-> loc[t].user_input,
   analysis |-> loc[t].analysis]

\* history = get_user_history(); history.append(new_entry)
CiLoad(t) ==
  /\ pc[t] = "ci_load"
  /\ loc' = [loc EXCEPT ![t].history = Append(get_user_history, NewEntry(t)),
                         ![t].recent_moods = <<>>]
  /\ totalAppends' = totalAppends + 1
  /\ Goto(t, "ci_save")
  /\ UNCHANGED <<knobs, executor, lastDone, now, userHistoryFile, lastCheckinFile, emailConfigFile, diskOk,
                 scheduler, agent, interval, lastSweep, notifier, alertCalls, budget>>

\* save_user_history(history), then the first line of save_last_checkin()
CiSave(t) ==
  /\ pc[t] = "ci_save"
  /\ userHistoryFile' = save_json_file(userHistoryFile, loc[t].history, diskOk)
  /\ loc' = [loc EXCEPT ![t].history = <<>>, ![t].data = Iso(now)]
  /\ Goto(t, "ci_write")
  /\ UNCHANGED <<knobs, executor, lastDone, now, lastCheckinFile, emailConfigFile, diskOk, scheduler, agent,
                 interval, lastSweep, notifier, alertCalls, totalAppends, budget>>

\* save_last_checkin() writes; the session state is set; st.rerun()
CiWrite(t) ==
  /\ pc[t] = "ci_write"
  /\ lastCheckinFile' = WriteMarker(t)
  /\ loc' = [loc EXCEPT ![t] = [LocInit EXCEPT !.checkin_done = TRUE]]
  /\ lastDone' = [response |-> loc[t].user_input, mood |-> loc[t].mood]
  /\ Goto(t, "start")
  /\ UNCHANGED <<knobs, executor, now, userHistoryFile, emailConfigFile, diskOk, scheduler, agent,
                 interval, lastSweep, notifier, alertCalls, totalAppends, budget>>

\* "Start New Check-In": the session state is cleared; st.rerun()
StartNewCheckin(t) ==
  /\ pc[t] = "ui"
  /\ ~MainRaises(t)
  /\ loc[t].checkin_done
  /\ loc' = [loc EXCEPT ![t] = LocInit]
  /\ Goto(t, "start")
  /\ UNCHANGED <<knobs, executor, lastDone, now, userHistoryFile, lastCheckinFile, emailConfigFile, diskOk,
                 scheduler, agent, interval, lastSweep, notifier, alertCalls,
                 totalAppends, budget>>

\* Streamlit runs the script again, from its first line, when the page is
\* reloaded or a widget is used
Rerun(t) ==
  /\ pc[t] = "ui"
  /\ Goto(t, "start")
  /\ UNCHANGED <<knobs, executor, lastDone, now, userHistoryFile, lastCheckinFile, emailConfigFile, diskOk,
                 scheduler, agent, loc, interval, lastSweep, notifier, alertCalls,
                 totalAppends, budget>>

(* ---------------- the schedulers at work ---------------- *)
\* send_checkin_email that also calls save_last_checkin()
FireReminderMarking(i) ==
  /\ i \in Due(scheduler)
  /\ \E smtp_ok \in BOOLEAN :
       LET r == send_email(get_email_config, smtp_ok)
       IN /\ notifier' = Call("reminder", r)
          /\ scheduler' = Rearm(scheduler, i, r)
  /\ lastCheckinFile' = save_json_file(lastCheckinFile, [timestamp |-> Iso(now)], diskOk)
  /\ UNCHANGED <<knobs, executor, lastDone, now, userHistoryFile, emailConfigFile, diskOk,
                 agent, pc, loc, interval, lastSweep, alertCalls, totalAppends, budget>>

\* the web app's scheduler runs a due job: send_checkin_email()
FireReminder(i) ==
  /\ i \in Due(scheduler)
  /\ \E smtp_ok \in BOOLEAN :
       LET r == send_email(get_email_config, smtp_ok)
       IN /\ notifier' = Call("reminder", r)
          /\ scheduler' = Rearm(scheduler, i, r)
  /\ UNCHANGED <<knobs, executor, lastDone, now, userHistoryFile, lastCheckinFile, emailConfigFile, diskOk,
                 agent, pc, loc, interval, lastSweep, alertCalls, totalAppends, budget>>

\* main() of the background service: setup_scheduler(), scheduler.start()
AgentStart ==
  /\ agent.state \in {"off", "stopped"}
  /\ agent' = [state |-> "running", jobs |-> setup_scheduler(now)]
  /\ UNCHANGED <<knobs, executor, lastDone, now, userHistoryFile, lastCheckinFile, emailConfigFile, diskOk,
                 scheduler, pc, loc, interval, lastSweep, notifier, alertCalls,
                 totalAppends, budget>>

\* the background service runs a due job
AgentFire(i) ==
  /\ agent.state = "running"
  /\ i \in Due(agent.jobs)
  /\ IF agent.jobs[i].func = "send_checkin_email"
     THEN \E smtp_ok \in BOOLEAN :
            LET r == agent_send_email(get_email_config, smtp_ok)
            IN /\ notifier' = Call("agent_reminder", r)
               /\ agent' = [agent EXCEPT !.jobs = Rearm(agent.jobs, i, r)]
     ELSE /\ notifier' = notifier
          /\ agent' = [agent EXCEPT !.jobs = Rearm(agent.jobs, i, Sent(TRUE))]
  /\ UNCHANGED <<knobs, executor, lastDone, now, userHistoryFile, lastCheckinFile, emailConfigFile, diskOk,
                 scheduler, pc, loc, interval, lastSweep, alertCalls, totalAppends,
                 budget>>

\* KeyboardInterrupt: scheduler.shutdown(), which returns once the job
\* instances that are executing have ended
AgentInterrupt ==
  /\ agent.state = "running"
  /\ agent' = [agent EXCEPT !.state = IF executor["agent"] = IdleExecutor
                                      THEN "stopped" ELSE "stopping"]
  /\ UNCHANGED <<knobs, executor, lastDone, now, userHistoryFile, lastCheckinFile, emailConfigFile, diskOk,
                 scheduler, pc, loc, interval, lastSweep, notifier, alertCalls,
                 totalAppends, budget>>

(* ---------------- job runs that take time ---------------- *)
\* add_job is called without max_instances: the scheduler submits a due job
\* to its executor only while no instance of that job id is executing
CanSubmitAlways(running) == TRUE

CanSubmit(running) == running < 1

\* a scheduler that has been skipped by shutdown
LiveAfterShutdown(o) == o = "web" \/ agent.state # "off"

\* the web app's scheduler is started when the module is loaded; the
\* background service's runs from scheduler.start() to the interrupt
Live(o) == o = "web" \/ agent.state = "running"

JobsOf(o) == IF o = "web" THEN scheduler ELSE agent.jobs

SetJobs(o, jobs) ==
  IF o = "web"
  THEN scheduler' = jobs /\ agent' = agent
  ELSE agent' = [agent EXCEPT !.jobs = jobs] /\ scheduler' = scheduler

\* a fire time of job i has come: an instance starts, or the fire time is
\* skipped because one is executing; the next fire time is one period later
RunStart(o, i) ==
  /\ Live(o)
  /\ i \in Due(JobsOf(o))
  /\ LET jobs == JobsOf(o)
         id == jobs[i].id
     IN IF CanSubmit(executor[o][id])
        THEN /\ executor' = [executor EXCEPT ![o][id] = executor[o][id] + 1]
             /\ SetJobs(o, [jobs EXCEPT ![i].next_run_time =
                                          jobs[i].next_run_time + jobs[i].hours])
        ELSE /\ executor' = executor
             /\ SetJobs(o, [jobs EXCEPT ![i].next_run_time =
                                          jobs[i].next_run_time + jobs[i].hours,
                                        ![i].skipped = jobs[i].skipped + 1])
  /\ UNCHANGED <<knobs, lastDone, now, userHistoryFile, lastCheckinFile, emailConfigFile,
                 diskOk, pc, loc, interval, lastSweep, notifier, alertCalls,
                 totalAppends, budget>>

\* what an instance of the job did when it ends
RunResult(o, id, smtp_ok) ==
  IF id # "checkin_email" THEN Sent(TRUE)
  ELSE IF o = "web" THEN send_email(get_email_config, smtp_ok)
  ELSE agent_send_email(get_email_config, smtp_ok)

\* an executing instance of job id ends
RunEnd(o, id) ==
  /\ executor[o][id] > 0
  /\ executor' = [executor EXCEPT ![o][id] = executor[o][id] - 1]
  /\ \E smtp_ok \in BOOLEAN :
       LET r == RunResult(o, id, smtp_ok)
           jobs == JobsOf(o)
       IN /\ notifier' = IF id = "checkin_email"
                         THEN Call(IF o = "web" THEN "reminder" ELSE "agent_reminder", r)
                         ELSE notifier
          /\ SetJobs(o, [i \in 1..Len(jobs) |->
                           IF jobs[i].id = id
                           THEN [jobs[i] EXCEPT !.runs = jobs[i].runs + 1,
                                                !.gated = jobs[i].gated
                                                            \/ r.smtp = "not_called"]
                           ELSE jobs[i]])
  /\ UNCHANGED <<knobs, lastDone, now, userHistoryFile, lastCheckinFile, emailConfigFile,
                 diskOk, pc, loc, interval, lastSweep, alertCalls, totalAppends,
                 budget>>

\* scheduler.shutdown() returns: the instances it waited for have ended
AgentShutdownDone ==
  /\ agent.state = "stopping"
  /\ executor["agent"] = IdleExecutor
  /\ agent' = [agent EXCEPT !.state = "stopped"]
  /\ UNCHANGED <<knobs, executor, lastDone, now, userHistoryFile, lastCheckinFile,
                 emailConfigFile, diskOk, scheduler, pc, loc, interval, lastSweep,
                 notifier, alertCalls, totalAppends, budget>>

\* an hour passes; running schedulers have run what was due
TickTo(limit) ==
  /\ now < limit
  /\ Due(scheduler) = {}
  /\ agent.state = "running" => Due(agent.jobs) = {}
  /\ now' = now + 1
  /\ UNCHANGED <<knobs, executor, lastDone, userHistoryFile, lastCheckinFile, emailConfigFile, diskOk,
                 scheduler, agent, pc, loc, interval, lastSweep, notifier, alertCalls,
                 totalAppends, budget>>

Tick == TickTo(MaxClock)
SchedTick == TickTo(MaxSchedClock)

SessionStep(t) ==
  \/ ScriptStart(t)
  \/ SweepRead(t)
  \/ SweepSend(t)
  \/ SweepWrite(t)
  \/ \E analysis \in AnalysisTexts : Submit(t, UserInput(t), TRUE, analysis)
  \/ Submit(t, UserInput(t), FALSE, <<>>)
  \/ CiLoad(t)
  \/ CiSave(t)
  \/ CiWrite(t)
  \/ StartNewCheckin(t)

SidebarStep(t) ==
  \/ \E recipient \in {"", "user@example.com"} : SaveEmailSettings(t, recipient)
  \/ \E v \in SLIDER_MIN..SLIDER_MAX : SliderChange(t, v)
  \/ TestEmail(t)

AgentStep ==
  \/ AgentStart
  \/ \E i \in 1..Len(agent.jobs) : AgentFire(i)
  \/ AgentInterrupt

WebFire == \E i \in 1..Len(scheduler) : FireReminder(i)

\* The web sessions: the script of every session, and the clock.
Next == (\E t \in Sessions : SessionStep(t)) \/ Tick

Spec == Init /\ [][Next]_vars

\* The inactivity monitor: sessions that run the script again and again,
\* with notifications off or switched on in the sidebar, and the clock.
AlertSessionStep(t) ==
  \/ ScriptStart(t)
  \/ SweepRead(t)
  \/ SweepSend(t)
  \/ SweepWrite(t)
  \/ SaveEmailSettings(t, "user@example.com")
  \/ Rerun(t)

NextAlert == (\E t \in Sessions : AlertSessionStep(t)) \/ Tick

SpecAlert == Init /\ [][NextAlert]_vars

\* Reminders beside the marker's writers: one session that sweeps, switches
\* notifications on and checks in once, the web app's scheduler, the
\* background service once started, and the clock.
RemindSessionStep(t) ==
  \/ ScriptStart(t)
  \/ SweepRead(t)
  \/ SweepSend(t)
  \/ SweepWrite(t)
  \/ SaveEmailSettings(t, "user@example.com")
  \/ \E analysis \in AnalysisTexts : Submit(t, UserInput(t), TRUE, analysis)
  \/ CiLoad(t)
  \/ CiSave(t)
  \/ CiWrite(t)

RemindTick == TickTo(MaxRemindClock)

NextRemind ==
  \/ RemindSessionStep(1)
  \/ WebFire
  \/ AgentStart
  \/ \E i \in 1..Len(agent.jobs) : AgentFire(i)
  \/ RemindTick

SpecRemind == Init /\ [][NextRemind]_vars

\* The schedulers: sessions that start and use the sidebar, the web app's
\* scheduler, the background service, and the clock.
SchedSessionStep(t) ==
  \/ ScriptStart(t)
  \/ SweepRead(t)
  \/ SidebarStep(t)

NextSched ==
  \/ \E t \in Sessions : SchedSessionStep(t)
  \/ WebFire
  \/ AgentStep
  \/ SchedTick

InitSched == InitCommon /\ FreshInstall

SpecSched == InitSched /\ [][NextSched]_vars

(* ---------------- schedulers whose jobs take time ---------------- *)
\* One session that starts and saves the e-mail settings, both schedulers
\* with job instances that may run for hours, and the clock.
NextRun ==
  \/ ScriptStart(1)
  \/ SweepRead(1)
  \/ SaveEmailSettings(1, "user@example.com")
  \/ \E o \in Owners : \E i \in 1..Len(JobsOf(o)) : RunStart(o, i)
  \/ \E o \in Owners : \E id \in JobIds : RunEnd(o, id)
  \/ AgentStart
  \/ AgentInterrupt
  \/ AgentShutdownDone
  \/ SchedTick

SpecRun == InitSched /\ [][NextRun]_vars

(* ---------------- a long-used store ---------------- *)
\* The history after PrefillLen earlier check-ins, one an hour, the last
\* one INACTIVITY_THRESHOLD_HOURS + 1 hours before this run starts.
StoreEntry(i) ==
  [timestamp |-> Iso(i - PrefillLen - INACTIVITY_THRESHOLD_HOURS - 1),
   mood |-> <<"Neutral">>,
   response |-> "earlier", analysis |-> <<"Mood:", "Neutral">>]

InitStore ==
  /\ InitCommon
  /\ userHistoryFile = JsonFile([i \in 1..PrefillLen |-> StoreEntry(i)])
  /\ lastCheckinFile = JsonFile([timestamp |-> Iso(0 - INACTIVITY_THRESHOLD_HOURS - 1)])
  /\ totalAppends = PrefillLen

\* one session checking in, and the clock
NextStore == SessionStep(1) \/ Tick

SpecStore == InitStore /\ [][NextStore]_vars

(* ---------------- check-ins over a stored history ---------------- *)
\* What the LLM may reply: the format asked for, free text with and without
\* a mood word, "Mood:" with nothing after it or with a line break after
\* it, "Mood:" with free text, and an empty reply.
MoodReplies ==
  { <<"Mood:", "Positive", "\n", "Suggestion:", "walk">>,
    <<"you", "seem", "sad">>,
    <<"take", "care">>,
    <<"Mood:">>,
    <<"Mood:", "\n", "Suggestion:", "rest">>,
    <<"Mood:", "mixed", "feelings">>,
    <<>> }

\* record i of a history of n earlier check-ins, one an hour, each with a
\* mood of its own; the last one INACTIVITY_THRESHOLD_HOURS before this run
MoodEntry(i, n) ==
  LET keyword == MoodKeywords[((i - 1) % Len(MoodKeywords)) + 1]
  IN [timestamp |-> Iso(i - n - INACTIVITY_THRESHOLD_HOURS), mood |-> <<keyword>>,
      response |-> "earlier", analysis |-> <<"Mood:", keyword>>]

StoredHistory(n) ==
  /\ userHistoryFile = IF n = 0 THEN AbsentFile
                       ELSE JsonFile([i \in 1..n |-> MoodEntry(i, n)])
  /\ lastCheckinFile = IF n = 0 THEN AbsentFile
                       ELSE JsonFile([timestamp |-> Iso(0 - INACTIVITY_THRESHOLD_HOURS)])
  /\ totalAppends = n

InitMood == InitCommon /\ \E n \in 0..MaxHistory : StoredHistory(n)

MoodSessionStep(t) ==
  \/ ScriptStart(t)
  \/ SweepRead(t)
  \/ SweepSend(t)
  \/ SweepWrite(t)
  \/ \E analysis \in MoodReplies : Submit(t, UserInput(t), TRUE, analysis)
  \/ Submit(t, UserInput(t), FALSE, <<>>)
  \/ CiLoad(t)
  \/ CiSave(t)
  \/ CiWrite(t)
  \/ StartNewCheckin(t)

\* one session checking in, and the clock
NextMood == MoodSessionStep(1) \/ Tick

SpecMood == InitMood /\ [][NextMood]_vars

(* ---------------- a disk and files that fail ---------------- *)
\* open(file, 'w') starts or stops failing
Disk(ok) ==
  /\ diskOk # ok
  /\ diskOk' = ok
  /\ UNCHANGED <<knobs, executor, lastDone, now, userHistoryFile, lastCheckinFile,
                 emailConfigFile, scheduler, agent, pc, loc, interval, lastSweep,
                 notifier, alertCalls, totalAppends, budget>>

\* no script run is in progress
Idle == \A t \in Sessions : pc[t] \in {"start", "ui", "crashed"}

\* what something other than this program may leave in a data file: no
\* file, text that is not JSON, bytes that are not UTF-8, and in the
\* marker a timestamp that is not ISO-8601
DamagedFiles == {AbsentFile, CorruptFile, UndecodableFile}
DamagedMarkers == DamagedFiles \cup {JsonFile([timestamp |-> Malformed])}

DamageMarker(file) ==
  /\ Idle
  /\ lastCheckinFile # file
  /\ lastCheckinFile' = file
  /\ UNCHANGED <<knobs, executor, lastDone, now, userHistoryFile, emailConfigFile, diskOk,
                 scheduler, agent, pc, loc, interval, lastSweep, notifier,
                 alertCalls, totalAppends, budget>>

DamageHistory(file) ==
  /\ Idle
  /\ userHistoryFile # file
  /\ userHistoryFile' = file
  /\ UNCHANGED <<knobs, executor, lastDone, now, lastCheckinFile, emailConfigFile, diskOk,
                 scheduler, agent, pc, loc, interval, lastSweep, notifier,
                 alertCalls, totalAppends, budget>>

DamageConfig(file) ==
  /\ Idle
  /\ emailConfigFile # file
  /\ emailConfigFile' = file
  /\ UNCHANGED <<knobs, executor, lastDone, now, userHistoryFile, lastCheckinFile, diskOk,
                 scheduler, agent, pc, loc, interval, lastSweep, notifier,
                 alertCalls, totalAppends, budget>>

Damage ==
  \/ \E file \in DamagedMarkers : DamageMarker(file)
  \/ \E file \in DamagedFiles : DamageHistory(file)
  \/ \E file \in DamagedFiles : DamageConfig(file)

\* one session, with script runs that end in an exception
FaultSessionStep(t) ==
  \/ SessionStep(t)
  \/ SweepRaise(t)
  \/ RenderRaise(t)

NextFault ==
  \/ FaultSessionStep(1)
  \/ Tick
  \/ \E ok \in BOOLEAN : Disk(ok)
  \/ Damage

SpecFault == Init /\ [][NextFault]_vars

(* ---------------- the knobs ---------------- *)
\* the import of config.py runs validate_config; an error is raised again
ValidateConfig ==
  /\ knobs.validated = "not_run"
  /\ knobs' = [knobs EXCEPT !.validated = IF validate_config(knobs) = <<>>
                                          THEN "ok" ELSE "error"]
  /\ UNCHANGED <<executor, lastDone, now, userHistoryFile, lastCheckinFile, emailConfigFile,
                 diskOk, scheduler, agent, pc, loc, interval, lastSweep, notifier,
                 alertCalls, totalAppends, budget>>

\* validate_config applied to every setting of the knobs
InitValidate == knobs \in KnobSettings /\ InitProgram /\ FreshInstall

NextValidate == ValidateConfig

SpecValidate == InitValidate /\ [][NextValidate]_vars

\* the background service run under every setting of its two knobs
InitKnobs == knobs \in AgentKnobs /\ InitProgram /\ FreshInstall

NextKnobs == AgentStep \/ SchedTick

SpecKnobs == InitKnobs /\ [][NextKnobs]_vars

(* ---------------- properties ---------------- *)
Min(a, b) == IF a < b THEN a ELSE b

SweepLeaves(t, label) == pc[t] = label /\ pc'[t] # label

ReminderJobs(jobs) == {i \in 1..Len(jobs) : jobs[i].id = "checkin_email"}
JobsWithId(jobs, id) == {i \in 1..Len(jobs) : jobs[i].id = id}

\* C1: whenever no append is in flight, the stored history has length
\* min(totalAppends, MAX_HISTORY_ENTRIES), and once more than
\* MAX_HISTORY_ENTRIES records were appended the first record is gone.
C1_HistoryCapped ==
  pc[1] # "ci_save" =>
    /\ Len(get_user_history) = Min(totalAppends, MAX_HISTORY_ENTRIES)
    /\ totalAppends > MAX_HISTORY_ENTRIES => get_user_history[1] # StoreEntry(1)

\* C2: a sweep that finds the marker older than the threshold goes on to
\* send; its send is one send_inactivity_alert call and fixes the new marker
\* value at the current hour; its write puts that value in the marker file
\* and ends the sweep; and a sweep that finds the marker written this very
\* hour ends without an alert.
C2_Debounce ==
  [][\A t \in Sessions :
       /\ (SweepLeaves(t, "sweep") /\ AlertDue(get_last_checkin, now))
            => (pc'[t] = "sweep_send" /\ alertCalls' = alertCalls)
       /\ SweepLeaves(t, "sweep_send")
            => /\ alertCalls' = alertCalls + 1
               /\ pc'[t] = "sweep_write"
               /\ loc'[t].data = Iso(now)
       /\ SweepLeaves(t, "sweep_write")
            => /\ get_last_checkin' = loc[t].data
               /\ alertCalls' = alertCalls
               /\ pc'[t] = "ui"
       /\ (SweepLeaves(t, "sweep") /\ get_last_checkin = Iso(now))
            => (pc'[t] = "ui" /\ alertCalls' = alertCalls)
  ]_vars

\* no check-in was made in this run; one session's sweep alerted and wrote
\* the marker, and the latest sweep, run in the same hour after it, found
\* the marker fresh and was silent
C2_Witness ==
  /\ \A t \in Sessions : pc[t] = "ui"
  /\ budget = MaxCheckins
  /\ get_last_checkin = Iso(now)
  /\ lastSweep = "fresh"
  /\ alertCalls = 1

\* C3: when a session moves the interval slider, the reminder job that is
\* left is the only one and runs at the newly chosen interval.
C3_SliderSetsInterval ==
  [][\A t \in Sessions :
       interval'[t] # interval[t] =>
         /\ Cardinality(ReminderJobs(scheduler')) = 1
         /\ \A i \in ReminderJobs(scheduler') :
              /\ scheduler'[i].hours = interval'[t]
              /\ scheduler'[i].next_run_time = now + interval'[t]
  ]_vars

C5_SweepJobScheduled ==
  agent.state = "running" =>
    \E i \in 1..Len(agent.jobs) :
      /\ agent.jobs[i].func = "check_inactivity"
      /\ agent.jobs[i].id # "checkin_email"

\* C6: no write of the marker file replaces a timestamp by an earlier one.
C6_MarkerNeverRewound ==
  [][(get_last_checkin # None /\ get_last_checkin' # None)
       => FromIso(get_last_checkin') >= FromIso(get_last_checkin)]_vars

\* C7: the record of every session whose check-in has completed is in the
\* stored history.
C7_NoLostUpdate ==
  \A t \in Sessions :
    loc[t].checkin_done =>
      \E i \in 1..Len(get_user_history) : get_user_history[i].response = UserInput(t)

\* C8: a sweep that finds no marker ends at once, sends nothing and leaves
\* the marker file as it was.
C8_AbsentMarkerIsQuiet ==
  [][\A t \in Sessions :
       (SweepLeaves(t, "sweep") /\ get_last_checkin = None)
         => /\ pc'[t] = "ui"
            /\ alertCalls' = alertCalls
            /\ notifier' = notifier
            /\ lastCheckinFile' = lastCheckinFile
  ]_vars

\* a sweep has run on a fresh install and the marker file is still absent
C8_Witness ==
  /\ \E t \in Sessions : pc[t] = "ui"
  /\ lastSweep = "absent"
  /\ lastCheckinFile = AbsentFile
  /\ alertCalls = 0

\* a run of job i of a job store: the job stays, one period later
Ran(jobs, jobs2, i) ==
  /\ Len(jobs2) = Len(jobs)
  /\ jobs2[i].id = jobs[i].id
  /\ jobs2[i].runs = jobs[i].runs + 1

Kept(jobs, jobs2, i) ==
  /\ jobs2[i].hours = jobs[i].hours
  /\ jobs2[i].next_run_time = jobs[i].next_run_time + jobs[i].hours
  /\ jobs2[i].next_run_time > now
  /\ \A k \in 1..Len(jobs) : k # i => jobs2[k] = jobs[k]

WebRan(i) == i \in 1..Len(scheduler) /\ Ran(scheduler, scheduler', i)
AgentRan(i) ==
  /\ i \in 1..Len(agent.jobs)
  /\ agent.jobs[i].func = "send_checkin_email"
  /\ agent'.state = agent.state
  /\ Ran(agent.jobs, agent'.jobs, i)

\* C9, as stated: a reminder run makes the SMTP call exactly when the
\* stored configuration has enabled = true, and the job stays scheduled.
C9_GateFollowsEnabled ==
  [][/\ \A i \in 1..Len(scheduler) :
          WebRan(i) => /\ (notifier'.smtp # "not_called") = get_email_config.enabled
                       /\ Kept(scheduler, scheduler', i)
     /\ \A i \in 1..Len(agent.jobs) :
          AgentRan(i) => /\ (notifier'.smtp # "not_called") = get_email_config.enabled
                         /\ Kept(agent.jobs, agent'.jobs, i)
  ]_vars

\* C9, amended: the web app's reminder makes the SMTP call exactly when
\* enabled = true; the background service's exactly when enabled = true and
\* a recipient is configured; either way the job stays scheduled and reads
\* the configuration anew on every run.
C9_GateFollowsConfig ==
  [][/\ \A i \in 1..Len(scheduler) :
          WebRan(i) => /\ (notifier'.smtp # "not_called") = get_email_config.enabled
                       /\ notifier'.caller = "reminder"
                       /\ Kept(scheduler, scheduler', i)
     /\ \A i \in 1..Len(agent.jobs) :
          AgentRan(i) => /\ (notifier'.smtp # "not_called")
                              = (get_email_config.enabled
                                   /\ get_email_config.recipient_email # "")
                         /\ notifier'.caller = "agent_reminder"
                         /\ Kept(agent.jobs, agent'.jobs, i)
  ]_vars

\* a reminder job of the background service ran with the gate closed, the
\* configuration was saved since, and the same job has now made the SMTP call
C9_Witness ==
  \E i \in 1..Len(agent.jobs) :
    /\ agent.jobs[i].func = "send_checkin_email"
    /\ agent.jobs[i].gated
    /\ agent.jobs[i].runs = 2
    /\ notifier.caller = "agent_reminder"
    /\ notifier.smtp # "not_called"
    /\ get_email_config.enabled

\* C10: a reminder run never lets an exception out of send_email; a failed
\* SMTP call gives the result False; and the job stays scheduled one period
\* later, after the current hour.
C10_FailureSwallowed ==
  [][/\ \A i \in 1..Len(scheduler) :
          WebRan(i) => /\ ~notifier'.raised
                       /\ notifier'.smtp = "failed" => ~notifier'.result
                       /\ Kept(scheduler, scheduler', i)
     /\ \A i \in 1..Len(agent.jobs) :
          AgentRan(i) => /\ ~notifier'.raised
                         /\ notifier'.smtp = "failed" => ~notifier'.result
                         /\ Kept(agent.jobs, agent'.jobs, i)
  ]_vars

\* a reminder job has just run, its SMTP call failed, and the job waits for
\* its next period
C10_Witness ==
  /\ notifier.caller \in {"reminder", "agent_reminder"}
  /\ notifier.smtp = "failed"
  /\ ~notifier.result
  /\ \/ \E i \in 1..Len(scheduler) :
          scheduler[i].runs >= 1 /\ scheduler[i].next_run_time = now + scheduler[i].hours
     \/ \E i \in 1..Len(agent.jobs) :
          /\ agent.jobs[i].func = "send_checkin_email"
          /\ agent.jobs[i].runs >= 1
          /\ agent.jobs[i].next_run_time = now + agent.jobs[i].hours

\* a check-in handler of session t moves from one position to the next
Moves(t, from, to) == pc[t] = from /\ pc'[t] = to

\* C11: the mood context built when a check-in is submitted has
\* min(MOOD_HISTORY_CONTEXT_SIZE, Len(history)) entries, never more than the
\* window nor than the history; entry j is the mood of the j-th of the last
\* records of the stored history, oldest first; so it is empty for an empty
\* history.
C11_ContextIsRecentWindow ==
  [][\A t \in Sessions :
       Moves(t, "ui", "ci_load") =>
         LET history == get_user_history
             context == loc'[t].recent_moods
             size == Min(MOOD_HISTORY_CONTEXT_SIZE, Len(history))
         IN /\ Len(context) = size
            /\ Len(context) <= MOOD_HISTORY_CONTEXT_SIZE
            /\ Len(context) <= Len(history)
            /\ \A j \in 1..size : context[j] = history[Len(history) - size + j].mood
            /\ history = <<>> => context = <<>>
  ]_vars

\* a check-in was submitted over a history of five records and its context
\* holds the moods of records 3, 4 and 5, in that order
C11_Witness ==
  /\ pc[1] = "ci_load"
  /\ Len(get_user_history) = 5
  /\ loc[1].recent_moods = << <<"Stressed">>, <<"Sad">>, <<"Anxious">> >>

\* C12: the save of a check-in stores the history it found plus exactly one
\* record, the submitted one; the marker write that follows sets the marker
\* to an hour not before that record's and not after the current one, so
\* that no alert is due, and completes the check-in; and after one check-in
\* with mood Positive on an empty store the next context is [Positive].
C12_CheckinAppendsAndMarks ==
  [][\A t \in Sessions :
       /\ Moves(t, "ci_save", "ci_write") =>
            LET before == get_user_history
                after == get_user_history'
            IN /\ Len(after) = Len(before) + 1
               /\ SubSeq(after, 1, Len(before)) = before
               /\ after[Len(after)].response = UserInput(t)
               /\ after[Len(after)].mood = loc[t].mood
               /\ after[Len(after)].analysis = loc[t].analysis
       /\ Moves(t, "ci_write", "start") =>
            LET history == get_user_history
                marker == get_last_checkin'
            IN /\ marker # None
               /\ FromIso(marker) >= FromIso(history[Len(history)].timestamp)
               /\ FromIso(marker) <= now
               /\ ~AlertDue(marker, now)
               /\ loc'[t].checkin_done
               /\ userHistoryFile' = userHistoryFile
       /\ (/\ Moves(t, "ui", "ci_load")
           /\ totalAppends = 1
           /\ Len(get_user_history) = 1
           /\ get_user_history[1].mood = <<"Positive">>)
            => loc'[t].recent_moods = << <<"Positive">> >>
  ]_vars

\* the store was empty, one check-in with mood Positive was made an hour or
\* more into the run, and the next check-in has been submitted with the
\* context [Positive]
C12_Witness ==
  /\ totalAppends = 1
  /\ pc[1] = "ci_load"
  /\ Len(get_user_history) = 1
  /\ get_user_history[1].response = UserInput(1)
  /\ get_user_history[1].mood = <<"Positive">>
  /\ get_last_checkin # None
  /\ FromIso(get_last_checkin) >= 1
  /\ FromIso(get_last_checkin) >= FromIso(get_user_history[1].timestamp)
  /\ loc[1].recent_moods = << <<"Positive">> >>

\* C13: the mood of every stored record is one of the mood keywords or
\* Unknown, and is not empty.
C13_StoredMoodIsKeyword ==
  \A i \in 1..Len(get_user_history) :
    /\ get_user_history[i].mood # <<>>
    /\ \/ get_user_history[i].mood = <<"Unknown">>
       \/ \E k \in 1..Len(MoodKeywords) : get_user_history[i].mood = <<MoodKeywords[k]>>

\* C14: when the write of the history fails during a check-in, the history
\* read afterwards is the list the check-in appended to, new record included.
C14_AppendSurvivesFailedWrite ==
  [][\A t \in Sessions :
       (Moves(t, "ci_save", "ci_write") /\ ~diskOk)
         => get_user_history' = loc[t].history
  ]_vars

\* C15: a sweep that reads a marker whose timestamp does not parse ends as
\* a sweep that finds no marker: the script run goes on to the page, nothing
\* is sent and the marker file is left alone.
C15_MalformedMarkerIsAbsent ==
  [][\A t \in Sessions :
       (/\ SweepLeaves(t, "sweep")
        /\ lastCheckinFile.state = "json"
        /\ get_last_checkin = Malformed)
         => /\ pc'[t] = "ui"
            /\ lastSweep' = "absent"
            /\ alertCalls' = alertCalls
            /\ lastCheckinFile' = lastCheckinFile
  ]_vars

\* C16: a read of a record that is absent or not JSON gives the default and
\* does not raise: a sweep over such a marker finds no marker and goes on to
\* the page; an alert over such a configuration finds notifications
\* disabled and goes on to the marker write; and the page over such a
\* history or configuration is built without an exception.
C16_ReadsFallBackToDefaults ==
  [][\A t \in Sessions :
       /\ (SweepLeaves(t, "sweep") /\ lastCheckinFile.state # "json")
            => (pc'[t] = "ui" /\ lastSweep' = "absent")
       /\ (SweepLeaves(t, "sweep_send") /\ emailConfigFile.state # "json")
            => /\ pc'[t] = "sweep_write"
               /\ notifier'.smtp = "not_called"
               /\ ~notifier'.raised
       /\ (/\ SweepLeaves(t, "ui")
           /\ ~MarkerRaises
           /\ userHistoryFile.state # "json" \/ emailConfigFile.state # "json"
           /\ userHistoryFile.state = "json" => get_user_history # <<>>)
            => pc'[t] # "crashed"
  ]_vars

InRange(k) ==
  /\ k.CHECK_IN_INTERVAL_HOURS \in 2..5
  /\ k.INACTIVITY_THRESHOLD_HOURS >= 1
  /\ k.MOOD_HISTORY_CONTEXT_SIZE >= 1
  /\ k.MAX_HISTORY_ENTRIES >= 1

\* C17: once validation has run, it has ended in an error exactly when one
\* of the four knobs is out of range, and the knobs are as they were set.
C17_ValidationRejectsOutOfRange ==
  /\ knobs.validated # "not_run" => (knobs.validated = "ok") = InRange(knobs)
  /\ [knobs EXCEPT !.validated = "not_run"] \in KnobSettings

\* C18: while the scheduler of the background service runs, the reminder
\* interval is within 2..5 hours and the inactivity threshold at least 1
\* hour, and so is the interval of every reminder job it holds.
C18_NoJobOutOfRange ==
  agent.state = "running" =>
    /\ knobs.CHECK_IN_INTERVAL_HOURS \in 2..5
    /\ knobs.INACTIVITY_THRESHOLD_HOURS >= 1
    /\ \A i \in 1..Len(agent.jobs) :
         agent.jobs[i].func = "send_checkin_email" => agent.jobs[i].hours \in 2..5

JobsOfNext(o) == IF o = "web" THEN scheduler' ELSE agent'.jobs

C20_ShutdownStopsJobs ==
  [][/\ (agent.state = "running" /\ agent'.state # "running")
          => agent'.state \in {"stopping", "stopped"}
     /\ agent.state = "stopping" => agent'.state \in {"stopping", "stopped"}
     /\ (agent.state \in {"stopping", "stopped"} /\ agent'.state # "running")
          => /\ \A id \in JobIds : executor'["agent"][id] <= executor["agent"][id]
             /\ Len(agent'.jobs) = Len(agent.jobs)
             /\ \A i \in 1..Len(agent.jobs) :
                  agent'.jobs[i].next_run_time = agent.jobs[i].next_run_time
     /\ agent'.state = "stopped" => executor'["agent"] = IdleExecutor
  ]_vars

\* the service ran a reminder and was stopped, and the reminder's next
\* fire time has passed without a run
C20_Witness ==
  /\ agent.state = "stopped"
  /\ \E i \in 1..Len(agent.jobs) :
       /\ agent.jobs[i].func = "send_checkin_email"
       /\ agent.jobs[i].runs >= 1
       /\ agent.jobs[i].next_run_time < now

C22_MarkerAdvancedWhateverTheOutcome ==
  [][\A t \in Sessions :
       /\ SweepLeaves(t, "sweep_send")
            => /\ notifier'.caller = "alert"
               /\ notifier'.smtp \in {"sent", "failed", "not_called"}
               /\ lastCheckinFile' = lastCheckinFile
               /\ pc'[t] = "sweep_write"
               /\ loc'[t].data = Iso(now)
       /\ SweepLeaves(t, "sweep_write")
            => /\ get_last_checkin' = loc[t].data
               /\ ~AlertDue(get_last_checkin', now)
               /\ notifier' = notifier
  ]_vars

\* an alert failed in SMTP, the marker was advanced all the same, and the
\* sweep that followed found it fresh and sent nothing
C22_Witness ==
  /\ notifier.caller = "alert"
  /\ notifier.smtp = "failed"
  /\ alertCalls = 1
  /\ lastSweep = "fresh"
  /\ get_last_checkin = Iso(now)
  /\ \A t \in Sessions : pc[t] = "ui"

\* C23: the marker being older than the threshold once in a run, no second
\* inactivity alert is delivered after a first one: a send_email call of
\* send_inactivity_alert that delivers its mail does not follow another that
\* delivered its mail, however the sweeps of the sessions interleave.
C23_OneAlertPerPeriod ==
  [][~(/\ alertCalls' = alertCalls + 1
       /\ notifier.caller = "alert" /\ notifier.smtp = "sent"
       /\ notifier'.caller = "alert" /\ notifier'.smtp = "sent")
  ]_vars

\* the hour of record i of the stored history
StoredAt(i) == FromIso(get_user_history[i].timestamp)

\* C24: the stored history is in the order of its timestamps, and the record
\* of the check-in that completed last is in it; when no later record
\* follows it, its mood is the last element of the mood context built from
\* the store.
C24_AppendsKeepOrder ==
  LET history == get_user_history
      context == RecentMoods(history)
  IN /\ \A i, j \in 1..Len(history) : i < j => StoredAt(i) <= StoredAt(j)
     /\ lastDone.response # "" =>
          \E i \in 1..Len(history) :
            /\ history[i].response = lastDone.response
            /\ history[i].mood = lastDone.mood
            /\ i = Len(history) =>
                 (context # <<>> /\ context[Len(context)] = lastDone.mood)

\* C25: a run of the reminder job, of the web app or of the background
\* service, leaves the marker file, the history file and the e-mail
\* configuration file as they were, whether the mail is delivered, fails in
\* SMTP or is not attempted; and the marker file changes only in the marker
\* write of a check-in or of a sweep that sent an alert.
C25_ReminderLeavesFiles ==
  [][/\ (\E i \in 1..Len(scheduler) \cup 1..Len(agent.jobs) :
            WebRan(i) \/ AgentRan(i))
          => /\ notifier'.smtp \in {"sent", "failed", "not_called"}
             /\ lastCheckinFile' = lastCheckinFile
             /\ userHistoryFile' = userHistoryFile
             /\ emailConfigFile' = emailConfigFile
     /\ lastCheckinFile' # lastCheckinFile
          => \E t \in Sessions : \/ Moves(t, "ci_write", "start")
                                  \/ Moves(t, "sweep_write", "ui")
  ]_vars

\* reminders have run after an alert and a check-in wrote the marker; the
\* latest one failed in SMTP, and marker, history and configuration are
\* what the session left
C25_Witness ==
  /\ \E i \in 1..Len(scheduler) : scheduler[i].runs >= 1
  /\ notifier.caller \in {"reminder", "agent_reminder"}
  /\ notifier.smtp = "failed"
  /\ alertCalls = 1
  /\ lastDone.response = UserInput(1)
  /\ get_last_checkin # None
  /\ FromIso(get_last_checkin) >= 1
  /\ Len(get_user_history) = 2
  /\ get_email_config.enabled

====
